---- MODULE Spec2Model ----
(***************************************************************************)
(* simple_wave_gen: a generator process synthesises sine frames and        *)
(* publishes them into a shared-memory ring buffer, a viewer thread polls  *)
(* and drains the ring buffer, and a controller writes fixed-size command  *)
(* records into a FIFO that the generator reads without blocking.          *)
(*                                                                         *)
(* Numeric conventions (the source uses double):                           *)
(*   frequency      integer Hz                                             *)
(*   amplitude      integer hundredths (0.8 is 80, 1.0 is 100)             *)
(*   phase          integer 1e-4 radians (2*pi is 62832)                   *)
(*   displayCycles  integer thousandths of a cycle                         *)
(*   zoom           integer thousandths                                    *)
(*   a sample       the pair (a, ph) standing for a * sin(ph)              *)
(*   time           integer milliseconds of the steady clock               *)
(*   NaN            one reserved integer; Less, Add, Sub, Mul and Div      *)
(*                  treat it as IEEE arithmetic treats a NaN               *)
(***************************************************************************)
EXTENDS Integers, Sequences, FiniteSets, TLC

\* ------------------------------------------------------------------ bounds
\* Ring capacity (16384 in Communication.hpp:21, scaled down).
BUFFER_SIZE == 4
\* Samples per frame (1000 in Communication.hpp:16, scaled down).
SAMPLES_PER_FRAME == 3
\* Viewer history length (800 in gtkview.cpp:20, scaled down).
MAX_DISPLAY_POINTS == 2
\* Number of frames the generator may produce in a run.
MaxFrames == 2
\* Latest steady-clock reading, in ms.
MaxClock == 100
\* Granularity with which the passage of time is observed, in ms.
TickMs == 25
\* Largest number of granules between two consecutive clock readings.
MaxDelayTicks == 2
\* Number of command lines the operator types at the controller.
MaxSent == 2
\* Number of stray fields a foreign writer may put into the FIFO.
MaxTorn == 1
\* Number of calls made on a SineGenerator taken by itself.
MaxCalls == 4

\* ------------------------------------------------------- program constants
FRAME_INTERVAL_MS == 50
CMD_NONE == 0
CMD_START == 1
CMD_STOP == 2
CMD_SET_FREQ == 3
CMD_SET_AMP == 4
CMD_QUIT == 5
\* sizeof(Command), counted in fields: the type tag and the value.
SizeofCommand == 2

MIN_FREQ == 1
MAX_FREQ == 22000
BASE_FREQUENCY == 100
BASE_CYCLES == 2000
BASE_VELOCITY == 50
MIN_CYCLES == 500
MAX_CYCLES == 12000
MIN_ZOOM == 500
MAX_ZOOM == 2000
MAX_VELOCITY == 300
TWO_PI == 62832
INITIAL_FREQUENCY == 100
INITIAL_AMPLITUDE == 80
MAX_AMPLITUDE == 100
\* The range of int, the type of SharedBuffer::totalProduced.
INT_MAX == 2147483647
INT_MIN == (-2147483647) - 1
\* The double that is not a number, which std::stod returns for "nan".
NaN == -999999999

\* Arguments of the calls made on a SineGenerator taken by itself: values
\* for setParameter("frequency", v) and setParameter("amplitude", v), counts
\* for generateSamples(count), and the phase the engine has been left with
\* by the frames generated before (0 after construction, and one velocity
\* step short of the wrap-around after 965 frames at 100 Hz and one at 440).
FreqValues == {0, 440, 30000, NaN}
AmpValues == {-50, 150, NaN}
Counts == {0, SAMPLES_PER_FRAME}
InitPhases == {0, TWO_PI - 21}

\* The six command kinds, and value payloads a record may carry.
CommandTypes ==
  {CMD_NONE, CMD_START, CMD_STOP, CMD_SET_FREQ, CMD_SET_AMP, CMD_QUIT}
CodecValues == {-50, NaN}

\* What the operator may type after "freq" and "amp".
FreqArgs == {"30000", "abc"}
AmpArgs == {"-0.5", "nan"}
\* Fields a foreign writer may leave in the FIFO.
TornCells == {CMD_START, CMD_QUIT}

VARIABLES
  \* SharedBuffer
  samples, writePos, readPos, newDataAvailable, totalProduced,
  \* named resources and descriptors of the generator
  fifoName, cmdFd, shmName, shmFd, mapped,
  \* the FIFO's content, a sequence of fields
  fifo,
  \* controller
  cpc,
  \* generator main()
  gpc, keepRunning, cmd, bytesRead, lastFrameTime, now, frame, fi, exitStatus,
  \* SineGenerator
  generator,
  \* viewer reader thread
  vpc, vrunning, lastWritePos, currentWrite, vReadPos, sampleHistory,
  \* history variables
  sent, dispatched, frameStart, run, poll, torn, hist, call

shmVars == <<samples, writePos, readPos, newDataAvailable, totalProduced>>
resVars == <<fifoName, cmdFd, shmName, shmFd, mapped>>
ctlVars == <<cpc>>
genVars == <<gpc, keepRunning, cmd, bytesRead, lastFrameTime, now, frame, fi,
             exitStatus>>
viewVars == <<vpc, vrunning, lastWritePos, currentWrite, vReadPos,
              sampleHistory>>
histVars == <<sent, dispatched, frameStart, run, poll, torn, hist, call>>
vars == <<shmVars, resVars, fifo, ctlVars, genVars, generator, viewVars,
          histVars>>

\* ---------------------------------------------------------------- helpers
\* double arithmetic: every comparison with NaN is false, every sum,
\* difference, product and quotient with NaN is NaN.
IsNaN(x) == x = NaN
Less(a, b) == ~IsNaN(a) /\ ~IsNaN(b) /\ a < b
Add(a, b) == IF IsNaN(a) \/ IsNaN(b) THEN NaN ELSE a + b
Sub(a, b) == IF IsNaN(a) \/ IsNaN(b) THEN NaN ELSE a - b
Mul(a, b) == IF IsNaN(a) \/ IsNaN(b) THEN NaN ELSE a * b
Div(a, b) == IF IsNaN(a) \/ IsNaN(b) THEN NaN ELSE a \div b
\* std::min(a, b) is (b < a) ? b : a; std::max(a, b) is (a < b) ? b : a.
Min(a, b) == IF Less(b, a) THEN b ELSE a
Max(a, b) == IF Less(a, b) THEN b ELSE a
\* std::clamp(v, lo, hi) is (v < lo) ? lo : (hi < v) ? hi : v.
Clamp(v, lo, hi) == IF Less(v, lo) THEN lo ELSE IF Less(hi, v) THEN hi ELSE v

\* 1000 * log10(x) for the arguments the model reaches.
Log10Milli(x) ==
  CASE IsNaN(x) -> NaN
    [] x = 1 -> 0
    [] x = 100 -> 2000
    [] x = 440 -> 2643
    [] x = 22000 -> 4342

\* 1000 * log10(f / BASE_FREQUENCY + 1) for the frequencies the model reaches.
Log10RatioMilli(f) ==
  CASE IsNaN(f) -> NaN
    [] f = 1 -> 4
    [] f = 100 -> 301
    [] f = 440 -> 732
    [] f = 22000 -> 2344

Sample(a, ph) == [a |-> a, ph |-> ph]
ZeroSample == Sample(0, 0)

\* --------------------------------------------------------- SineGenerator
UpdateDisplayParameters(g) ==
  LET logFreq == Log10Milli(g.m_frequency)
      logMin == Log10Milli(MIN_FREQ)
      logMax == Log10Milli(MAX_FREQ)
      ratio == Clamp(Div(Mul(Sub(logFreq, logMin), 1000), logMax - logMin),
                     0, 1000)
      cycles == Add(MIN_CYCLES, Div(Mul(ratio, MAX_CYCLES - MIN_CYCLES), 1000))
  IN  [g EXCEPT !.m_displayCycles = cycles,
                !.m_currentZoom =
                   Clamp(Div(BASE_CYCLES * 1000, cycles), MIN_ZOOM, MAX_ZOOM)]

NewGenerator(frequency, amplitude) ==
  UpdateDisplayParameters(
    [m_frequency |-> frequency,
     m_amplitude |-> Clamp(amplitude, 0, MAX_AMPLITUDE),
     m_running |-> FALSE,
     m_phase |-> 0,
     m_displayCycles |-> BASE_CYCLES,
     m_currentZoom |-> 1000])

Start(g) == [g EXCEPT !.m_running = TRUE]
\* A stop that also rewinds the phase, as resetPhase() does.
StopResetPhase(g) == [g EXCEPT !.m_running = FALSE, !.m_phase = 0]
Stop(g) == [g EXCEPT !.m_running = FALSE]
IsRunning(g) == g.m_running

RECURSIVE WrapPhase(_)
WrapPhase(p) == IF Less(TWO_PI, p) THEN WrapPhase(p - TWO_PI) ELSE p

Velocity(f) ==
  Min(Add(BASE_VELOCITY, Div(Mul(BASE_VELOCITY, Log10RatioMilli(f)), 1000)),
      MAX_VELOCITY)

\* The sampling that starts one step after the persistent phase.
RECURSIVE CurrentPhaseStepFirst(_, _, _)
CurrentPhaseStepFirst(phase, step, i) ==
  IF i = 0 THEN phase ELSE Add(CurrentPhaseStepFirst(phase, step, i - 1), step)
\* currentPhase when the sample at index i (from 1) is pushed: it starts at
\* m_phase and grows by phaseStep after each sample.
RECURSIVE CurrentPhase(_, _, _)
CurrentPhase(phase, step, i) ==
  IF i = 1 THEN phase ELSE Add(CurrentPhase(phase, step, i - 1), step)

\* generateSamples without the test of m_running.
GenerateSamplesNoRunningTest(g, count) ==
  LET g1 == UpdateDisplayParameters(g)
      totalPhase == Div(Mul(TWO_PI, g1.m_displayCycles), 1000)
      phaseStep == Div(totalPhase, count)
  IN  [gen |-> [g1 EXCEPT !.m_phase =
                   WrapPhase(Add(g1.m_phase, Velocity(g1.m_frequency)))],
       samples |-> [i \in 1..count |->
                      Sample(g1.m_amplitude,
                             CurrentPhase(g1.m_phase, phaseStep, i))]]
\* generateSamples(count): the returned vector and the generator afterwards.
GenerateSamples(g, count) ==
  IF ~g.m_running
  THEN [gen |-> g, samples |-> <<>>]
  ELSE LET g1 == UpdateDisplayParameters(g)
           totalPhase == Div(Mul(TWO_PI, g1.m_displayCycles), 1000)
           phaseStep == Div(totalPhase, count)
       IN  [gen |-> [g1 EXCEPT !.m_phase =
                        WrapPhase(Add(g1.m_phase, Velocity(g1.m_frequency)))],
            samples |-> [i \in 1..count |->
                           Sample(g1.m_amplitude,
                                  CurrentPhase(g1.m_phase, phaseStep, i))]]

SetParameter(g, name, value) ==
  IF name = "frequency"
  THEN UpdateDisplayParameters(
         [g EXCEPT !.m_frequency = Clamp(value, MIN_FREQ, MAX_FREQ)])
  ELSE IF name = "amplitude"
  THEN [g EXCEPT !.m_amplitude = Clamp(value, 0, MAX_AMPLITUDE)]
  ELSE g

\* ------------------------------------------------------- Command records
Command(t, v) == [type |-> t, value |-> v]
\* write(fd, &cmd, sizeof(Command)): the fields as they go on the wire.
Encode(c) == <<c.type, c.value>>
\* A read that takes the type tag and leaves the value as it was.
DecodeTypeOnly(old, cells) ==
  [type |-> IF Len(cells) >= 1 THEN cells[1] ELSE old.type,
   value |-> old.value]
\* read(cmdFd, &cmd, sizeof(Command)) of n fields into the old record.
Decode(old, cells) ==
  [type |-> IF Len(cells) >= 1 THEN cells[1] ELSE old.type,
   value |-> IF Len(cells) >= 2 THEN cells[2] ELSE old.value]


\* ----------------------------------------------------------- ring helpers
\* The increment without the wrap-around.
NextPosNoWrap(p) == p + 1
NextPos(p) == (p + 1) % BUFFER_SIZE

\* Unread samples between the cursors.
Unread == (writePos - readPos + BUFFER_SIZE) % BUFFER_SIZE

\* The samples at positions from, from+1, ..., to-1 (mod BUFFER_SIZE).
RECURSIVE RingSlice(_, _, _)
RingSlice(s, from, to) ==
  IF from = to THEN <<>> ELSE <<s[from]>> \o RingSlice(s, NextPos(from), to)

\* ------------------------------------------------------ history variables
NoRun == [rp0 |-> -1, n |-> 0]
NoPoll == [stage |-> "none"]
\* hist.checks: elapsed-time checks since the last command dispatch (0, 1,
\* or 2 for two and more); hist.pending: a whole record was waiting in the
\* FIFO at that dispatch; hist.stores: samples stored into the ring since the start
\* of the run; hist.base: the value of totalProduced at the start of the run;
\* hist.frameAt: the clock reading of the tick that requested the last frame;
\* hist.last: the production number of the sample the viewer delivered last
\* (samples are numbered 1, 2, ... in the order of their stores; 0 for none).
NoHist ==
  [checks |-> 0, pending |-> FALSE, stores |-> 0, base |-> 0, frameAt |-> -1,
   last |-> 0]
\* call: the last call made on a SineGenerator taken by itself.
NoCall == [n |-> 0, op |-> "none"]
\* The fields of the shared segment.
ShmRecord ==
  [samples |-> samples, writePos |-> writePos, readPos |-> readPos,
   newDataAvailable |-> newDataAvailable, totalProduced |-> totalProduced]
\* The records the controller has written, in order.
SentCommands == [i \in 1..Len(sent) |-> sent[i].cmd]
\* A Quit record has been dispatched.
QuitDispatched ==
  \E i \in 1..Len(dispatched) : dispatched[i].type = CMD_QUIT
\* The generator is between two per-sample production steps.
MidSample(pc) == pc \in {"advance", "full", "drop"}
\* A viewer step ends any run of uninterrupted production; a new run starts
\* if it leaves the ring empty with the generator between two samples.
RunAfterViewerStep ==
  run' = IF writePos' = readPos' /\ ~MidSample(gpc)
         THEN [rp0 |-> readPos', n |-> 0]
         ELSE NoRun
\* One more per-sample production step has completed.
RunAfterSample ==
  run' = IF run = NoRun THEN NoRun ELSE [run EXCEPT !.n = @ + 1]
\* A generator write to the shared segment interrupts the viewer's poll.
PollInterrupted == poll' = NoPoll

\* ------------------------------------------------------------------- Init
Init ==
  /\ samples = [i \in 0..(BUFFER_SIZE - 1) |-> ZeroSample]
  /\ writePos = 0
  /\ readPos = 0
  /\ newDataAvailable = FALSE
  /\ totalProduced = 0
  /\ fifoName = FALSE
  /\ cmdFd = "closed"
  /\ shmName = FALSE
  /\ shmFd = "closed"
  /\ mapped = FALSE
  /\ fifo = <<>>
  /\ cpc = "init"
  /\ gpc = "mkfifo"
  /\ keepRunning = TRUE
  /\ cmd = Command(CMD_NONE, 0)
  /\ bytesRead = 0
  /\ lastFrameTime = 0
  /\ now = 0
  /\ frame = <<>>
  /\ fi = 0
  /\ exitStatus = -1
  /\ generator = NewGenerator(INITIAL_FREQUENCY, INITIAL_AMPLITUDE)
  /\ vpc = "off"
  /\ vrunning = FALSE
  /\ lastWritePos = -1
  /\ currentWrite = 0
  /\ vReadPos = 0
  /\ sampleHistory = <<>>
  /\ sent = <<>>
  /\ dispatched = <<>>
  /\ frameStart = -1
  /\ run = [rp0 |-> 0, n |-> 0]
  /\ poll = NoPoll
  /\ torn = 0
  /\ hist = NoHist
  /\ call = NoCall

\* The samples produced by the whole frames of a long run: the largest
\* multiple of the frame size that an int holds.
LongRunProduced == (INT_MAX \div SAMPLES_PER_FRAME) * SAMPLES_PER_FRAME

\* The generator at the top of its loop after such a run: started by one
\* Start record, no viewer ever attached, so the ring is full and readPos is
\* one ahead of writePos.  The clock and hist.stores count from this state.
InitLongRun ==
  /\ samples = [i \in 0..(BUFFER_SIZE - 1) |-> Sample(INITIAL_AMPLITUDE, 0)]
  /\ writePos = LongRunProduced % BUFFER_SIZE
  /\ readPos = NextPos(LongRunProduced % BUFFER_SIZE)
  /\ newDataAvailable = TRUE
  /\ totalProduced = LongRunProduced
  /\ fifoName = TRUE
  /\ cmdFd = "open"
  /\ shmName = TRUE
  /\ shmFd = "open"
  /\ mapped = TRUE
  /\ fifo = <<>>
  /\ cpc = "run"
  /\ gpc = "loop"
  /\ keepRunning = TRUE
  /\ cmd = Command(CMD_START, 0)
  /\ bytesRead = -1
  /\ lastFrameTime = 0
  /\ now = 0
  /\ frame = <<>>
  /\ fi = 0
  /\ exitStatus = -1
  /\ generator = [NewGenerator(INITIAL_FREQUENCY, INITIAL_AMPLITUDE)
                    EXCEPT !.m_running = TRUE, !.m_phase = TWO_PI - 21]
  /\ vpc = "off"
  /\ vrunning = FALSE
  /\ lastWritePos = -1
  /\ currentWrite = 0
  /\ vReadPos = 0
  /\ sampleHistory = <<>>
  /\ sent = <<[cmd |-> Command(CMD_START, 0), inLoop |-> TRUE]>>
  /\ dispatched = <<Command(CMD_START, 0)>>
  /\ frameStart = -1
  /\ run = NoRun
  /\ poll = NoPoll
  /\ torn = 0
  /\ hist = [NoHist EXCEPT !.base = LongRunProduced]
  /\ call = NoCall

\* -------------------------------------------------- generator: start-up
\* signal(SIGINT, signalHandler): the handler may run at any point of main;
\* keepRunning is read by the loop test only, so the delivery is placed there.
SigInt ==
  /\ gpc = "loop"
  /\ keepRunning
  /\ keepRunning' = FALSE
  /\ UNCHANGED <<shmVars, resVars, fifo, ctlVars, generator, viewVars,
                 histVars, gpc, cmd, bytesRead, lastFrameTime, now, frame, fi,
                 exitStatus>>

\* A failure that is reported and then ignored.
FailWithoutReturn ==
  /\ gpc' = "loop"
  /\ exitStatus' = 1

\* return 1 on a start-up failure.
Fail ==
  /\ gpc' = "exited"
  /\ exitStatus' = 1

G_MkFifo ==
  /\ gpc = "mkfifo"
  /\ \E ok \in BOOLEAN :
       IF ok
       THEN /\ fifoName' = TRUE
            /\ fifo' = <<>>
            /\ gpc' = "openfifo"
            /\ UNCHANGED exitStatus
       ELSE /\ UNCHANGED <<fifoName, fifo>>
            /\ Fail
  /\ UNCHANGED <<shmVars, cmdFd, shmName, shmFd, mapped, ctlVars, generator,
                 viewVars, histVars, keepRunning, cmd, bytesRead,
                 lastFrameTime, now, frame, fi>>

G_OpenFifo ==
  /\ gpc = "openfifo"
  /\ \E ok \in BOOLEAN :
       IF ok
       THEN /\ cmdFd' = "open"
            /\ gpc' = "shmopen"
            /\ UNCHANGED exitStatus
       ELSE /\ UNCHANGED cmdFd
            /\ Fail
  /\ UNCHANGED <<shmVars, fifoName, shmName, shmFd, mapped, fifo, ctlVars,
                 generator, viewVars, histVars, keepRunning, cmd, bytesRead,
                 lastFrameTime, now, frame, fi>>

G_ShmOpen ==
  /\ gpc = "shmopen"
  /\ \E ok \in BOOLEAN :
       IF ok
       THEN /\ shmName' = TRUE
            /\ shmFd' = "open"
            /\ gpc' = "ftruncate"
            /\ UNCHANGED <<cmdFd, exitStatus>>
       ELSE /\ shmName' = FALSE
            /\ cmdFd' = "closed"
            /\ UNCHANGED shmFd
            /\ Fail
  /\ UNCHANGED <<shmVars, fifoName, mapped, fifo, ctlVars, generator,
                 viewVars, histVars, keepRunning, cmd, bytesRead,
                 lastFrameTime, now, frame, fi>>

G_Ftruncate ==
  /\ gpc = "ftruncate"
  /\ \E ok \in BOOLEAN :
       IF ok
       THEN /\ gpc' = "mmap"
            /\ UNCHANGED <<cmdFd, shmFd, exitStatus>>
       ELSE /\ cmdFd' = "closed"
            /\ shmFd' = "closed"
            /\ Fail
  /\ UNCHANGED <<shmVars, fifoName, shmName, mapped, fifo, ctlVars, generator,
                 viewVars, histVars, keepRunning, cmd, bytesRead,
                 lastFrameTime, now, frame, fi>>

\* mmap, then new (buffer) SharedBuffer(), then the first clock reading.
G_Mmap ==
  /\ gpc = "mmap"
  /\ \E ok \in BOOLEAN :
       IF ok
       THEN /\ mapped' = TRUE
            /\ samples' = [i \in 0..(BUFFER_SIZE - 1) |-> ZeroSample]
            /\ writePos' = 0
            /\ readPos' = 0
            /\ newDataAvailable' = FALSE
            /\ totalProduced' = 0
            /\ cmd' = Command(CMD_NONE, 0)
            /\ lastFrameTime' = now
            /\ gpc' = "loop"
            /\ UNCHANGED <<cmdFd, shmFd, exitStatus>>
       ELSE /\ cmdFd' = "closed"
            /\ shmFd' = "closed"
            /\ Fail
            /\ UNCHANGED <<shmVars, mapped, cmd, lastFrameTime>>
  /\ PollInterrupted
  /\ UNCHANGED <<fifoName, shmName, fifo, ctlVars, generator, viewVars,
                 sent, dispatched, frameStart, run, torn, hist, call,
                 keepRunning,
                 bytesRead, now, frame, fi>>

\* ------------------------------------------------ generator: command phase
\* while (keepRunning)
G_LoopTest ==
  /\ gpc = "loop"
  /\ gpc' = IF keepRunning THEN "read" ELSE "cleanup"
  /\ UNCHANGED <<shmVars, resVars, fifo, ctlVars, generator, viewVars,
                 histVars, keepRunning, cmd, bytesRead, lastFrameTime, now,
                 frame, fi, exitStatus>>

\* Number of fields a read of one record's size takes from the FIFO.
ReadCount(f) == Min(SizeofCommand, Len(f))
\* What read() returns: the count, or 0 at end of file (no writer has the
\* FIFO open), or -1 (EAGAIN) when a writer has it open and it is empty.
ReadResult(f, writerOpen) ==
  IF ReadCount(f) > 0 THEN ReadCount(f) ELSE IF writerOpen THEN -1 ELSE 0
\* A read that leaves the record in the FIFO.
FifoAfterReadKeep(f, n) == f
\* The FIFO after the read took n fields.
FifoAfterRead(f, n) == SubSeq(f, n + 1, Len(f))

\* ssize_t bytesRead = read(cmdFd, &cmd, sizeof(Command));
G_Read ==
  /\ gpc = "read"
  /\ LET n == ReadCount(fifo)
     IN  /\ bytesRead' = ReadResult(fifo, cpc = "run")
         /\ cmd' = Decode(cmd, SubSeq(fifo, 1, n))
         /\ fifo' = FifoAfterRead(fifo, n)
  /\ gpc' = "dispatch"
  /\ UNCHANGED <<shmVars, resVars, ctlVars, generator, viewVars, histVars,
                 keepRunning, lastFrameTime, now, frame, fi, exitStatus>>

\* Any read that returned data taken for a record.
FullRecordAnyBytes(n) == n > 0
\* if (bytesRead == sizeof(Command))
FullRecord(n) == n = SizeofCommand

\* The switch on cmd.type: the generator object afterwards.
Dispatch(g, c) ==
  CASE c.type = CMD_START -> Start(g)
    [] c.type = CMD_STOP -> Stop(g)
    [] c.type = CMD_SET_FREQ -> SetParameter(g, "frequency", c.value)
    [] c.type = CMD_SET_AMP -> SetParameter(g, "amplitude", c.value)
    [] OTHER -> g

\* A command phase that reads again after each record it dispatched.
G_DispatchDrain ==
  /\ gpc = "dispatch"
  /\ IF FullRecord(bytesRead)
     THEN /\ generator' = Dispatch(generator, cmd)
          /\ keepRunning' = IF cmd.type = CMD_QUIT THEN FALSE ELSE keepRunning
          /\ dispatched' = Append(dispatched, cmd)
          /\ hist' = [hist EXCEPT !.checks = 0,
                                  !.pending = Len(fifo) >= SizeofCommand]
          /\ gpc' = "read"
     ELSE /\ gpc' = "clock"
          /\ UNCHANGED <<generator, keepRunning, dispatched, hist>>
  /\ UNCHANGED <<shmVars, resVars, fifo, ctlVars, viewVars, sent, frameStart,
                 run, poll, torn, call, cmd, bytesRead, lastFrameTime, now,
                 frame, fi, exitStatus>>

\* if (bytesRead == sizeof(Command)) { switch (cmd.type) ... }
G_Dispatch ==
  /\ gpc = "dispatch"
  /\ IF FullRecord(bytesRead)
     THEN /\ generator' = Dispatch(generator, cmd)
          /\ keepRunning' = IF cmd.type = CMD_QUIT THEN FALSE ELSE keepRunning
          /\ dispatched' = Append(dispatched, cmd)
          /\ hist' = [hist EXCEPT !.checks = 0,
                                  !.pending = Len(fifo) >= SizeofCommand]
     ELSE UNCHANGED <<generator, keepRunning, dispatched, hist>>
  /\ gpc' = "clock"
  /\ UNCHANGED <<shmVars, resVars, fifo, ctlVars, viewVars, sent, frameStart,
                 run, poll, torn, call, cmd, bytesRead, lastFrameTime, now,
                 frame, fi, exitStatus>>

\* --------------------------------------------- generator: production phase
\* The time that may pass between two readings of the steady clock.
Delays == {k * TickMs : k \in 0..MaxDelayTicks}

\* if (elapsed.count() >= FRAME_INTERVAL_MS)
Elapsed(t, last) == t - last >= FRAME_INTERVAL_MS

\* auto now = steady_clock::now(); and the test of the elapsed time.
G_CheckElapsed ==
  /\ gpc = "clock"
  /\ \E d \in Delays :
       /\ now + d <= MaxClock
       /\ now' = now + d
       /\ gpc' = IF Elapsed(now + d, lastFrameTime) THEN "generate" ELSE "loop"
  /\ hist' = [hist EXCEPT !.checks = IF @ = 0 THEN 1 ELSE 2]
  /\ UNCHANGED <<shmVars, resVars, fifo, ctlVars, generator, viewVars, sent,
                 dispatched, frameStart, run, poll, torn, call, keepRunning,
                 cmd, bytesRead, lastFrameTime, frame, fi, exitStatus>>

\* if (generator.isRunning()) { samples = generateSamples(...);
\*   if (!samples.empty()) ...
G_Generate ==
  /\ gpc = "generate"
  /\ IsRunning(generator) => hist.stores < MaxFrames * SAMPLES_PER_FRAME
  /\ IF IsRunning(generator)
     THEN LET r == GenerateSamples(generator, SAMPLES_PER_FRAME)
          IN  /\ generator' = r.gen
              /\ frame' = r.samples
              /\ IF r.samples # <<>>
                 THEN /\ gpc' = "store"
                      /\ fi' = 1
                      /\ frameStart' = writePos
                      /\ hist' = [hist EXCEPT !.frameAt = now]
                 ELSE /\ gpc' = "reset"
                      /\ UNCHANGED <<fi, frameStart, hist>>
     ELSE /\ gpc' = "reset"
          /\ UNCHANGED <<generator, frame, fi, frameStart, hist>>
  /\ UNCHANGED <<shmVars, resVars, fifo, ctlVars, viewVars, sent, dispatched,
                 run, poll, torn, call, keepRunning, cmd, bytesRead,
                 lastFrameTime, now, exitStatus>>

\* buffer->samples[buffer->writePos] = sample;
G_Store ==
  /\ gpc = "store"
  /\ samples' = [samples EXCEPT ![writePos] = frame[fi]]
  /\ gpc' = "advance"
  /\ hist' = [hist EXCEPT !.stores = @ + 1]
  /\ PollInterrupted
  /\ UNCHANGED <<writePos, readPos, newDataAvailable, totalProduced, resVars,
                 fifo, ctlVars, generator, viewVars, sent, dispatched,
                 frameStart, run, torn, call, keepRunning, cmd, bytesRead,
                 lastFrameTime, now, frame, fi, exitStatus>>

\* The per-sample step without the count.
G_AdvanceNoCount ==
  /\ gpc = "advance"
  /\ writePos' = NextPos(writePos)
  /\ gpc' = "full"
  /\ PollInterrupted
  /\ UNCHANGED <<samples, readPos, newDataAvailable, totalProduced, resVars,
                 fifo, ctlVars, generator, viewVars, sent, dispatched,
                 frameStart, run, torn, hist, call, keepRunning, cmd,
                 bytesRead, lastFrameTime, now, frame, fi, exitStatus>>

\* x++ on an int: the increment of INT_MAX overflows, and the add
\* instruction the builds emit wraps to INT_MIN.
IncInt(x) == IF x = INT_MAX THEN INT_MIN ELSE x + 1

\* buffer->writePos = (buffer->writePos + 1) % BUFFER_SIZE;
\* buffer->totalProduced++;
G_Advance ==
  /\ gpc = "advance"
  /\ writePos' = NextPos(writePos)
  /\ totalProduced' = IncInt(totalProduced)
  /\ gpc' = "full"
  /\ PollInterrupted
  /\ UNCHANGED <<samples, readPos, newDataAvailable, resVars, fifo, ctlVars,
                 generator, viewVars, sent, dispatched, frameStart, run,
                 torn, hist, call,
                 keepRunning, cmd, bytesRead, lastFrameTime, now, frame, fi,
                 exitStatus>>

\* The flag raised after every sample.
AfterSampleFlagEach(i, n) == "flag"
\* Where the for loop over the frame goes after the sample at index i.
AfterSample(i, n) == IF i < n THEN "store" ELSE "flag"

\* The full test made one position early.
IsFullBeforeAdvance(w, r) == NextPos(w) = r
\* if (buffer->writePos == buffer->readPos)
IsFull(w, r) == w = r

\* A producer that waits for the consumer while the ring is full.
G_CheckFullWaiting ==
  /\ gpc = "full"
  /\ ~IsFull(writePos, readPos)
  /\ gpc' = AfterSample(fi, Len(frame))
  /\ fi' = fi + 1
  /\ RunAfterSample
  /\ UNCHANGED <<shmVars, resVars, fifo, ctlVars, generator, viewVars, sent,
                 dispatched, frameStart, poll, torn, hist, call, keepRunning,
                 cmd, bytesRead, lastFrameTime, now, frame, exitStatus>>

G_CheckFull ==
  /\ gpc = "full"
  /\ IF IsFull(writePos, readPos)
     THEN /\ gpc' = "drop"
          /\ UNCHANGED <<fi, run>>
     ELSE /\ gpc' = AfterSample(fi, Len(frame))
          /\ fi' = fi + 1
          /\ RunAfterSample
  /\ UNCHANGED <<shmVars, resVars, fifo, ctlVars, generator, viewVars, sent,
                 dispatched, frameStart, poll, torn, hist, call, keepRunning,
                 cmd,
                 bytesRead, lastFrameTime, now, frame, exitStatus>>

\* buffer->readPos = (buffer->readPos + 1) % BUFFER_SIZE;  The fields are
\* plain ints read and written by two processes: the build may reload
\* readPos for the increment or reuse the value the comparison just loaded,
\* which equals writePos.
DropOutcomes == {NextPos(readPos), NextPos(writePos)}

G_Drop ==
  /\ gpc = "drop"
  /\ \E r \in DropOutcomes : readPos' = r
  /\ gpc' = AfterSample(fi, Len(frame))
  /\ fi' = fi + 1
  /\ RunAfterSample
  /\ PollInterrupted
  /\ UNCHANGED <<samples, writePos, newDataAvailable, totalProduced, resVars,
                 fifo, ctlVars, generator, viewVars, sent, dispatched,
                 frameStart, torn, hist, call, keepRunning, cmd, bytesRead,
                 lastFrameTime,
                 now, frame, exitStatus>>

\* buffer->newDataAvailable = true;
G_SetFlag ==
  /\ gpc = "flag"
  /\ newDataAvailable' = TRUE
  /\ gpc' = "reset"
  /\ PollInterrupted
  /\ UNCHANGED <<samples, writePos, readPos, totalProduced, resVars, fifo,
                 ctlVars, generator, viewVars, sent, dispatched, frameStart,
                 run, torn, hist, call, keepRunning, cmd, bytesRead,
                 lastFrameTime, now,
                 frame, fi, exitStatus>>

\* A baseline that is reset only by a tick that produced a frame.
G_ResetBaselineAfterFrame ==
  /\ gpc = "reset"
  /\ lastFrameTime' = IF IsRunning(generator) THEN now ELSE lastFrameTime
  /\ gpc' = "loop"
  /\ UNCHANGED <<shmVars, resVars, fifo, ctlVars, generator, viewVars,
                 histVars, keepRunning, cmd, bytesRead, now, frame, fi,
                 exitStatus>>

\* lastFrameTime = now;
G_ResetBaseline ==
  /\ gpc = "reset"
  /\ lastFrameTime' = now
  /\ gpc' = "loop"
  /\ UNCHANGED <<shmVars, resVars, fifo, ctlVars, generator, viewVars,
                 histVars, keepRunning, cmd, bytesRead, now, frame, fi,
                 exitStatus>>

\* close(cmdFd); munmap(buffer, ...); close(shmFd); unlink(FIFO_COMMAND);
G_Cleanup ==
  /\ gpc = "cleanup"
  /\ cmdFd' = "closed"
  /\ mapped' = FALSE
  /\ shmFd' = "closed"
  /\ fifoName' = FALSE
  /\ gpc' = "exited"
  /\ exitStatus' = 0
  /\ UNCHANGED <<shmVars, shmName, fifo, ctlVars, generator, viewVars,
                 histVars, keepRunning, cmd, bytesRead, lastFrameTime, now,
                 frame, fi>>

\* ------------------------------------------------------------ controller
\* open(FIFO_COMMAND, O_WRONLY): fails without the FIFO, and waits for the
\* generator's reading end otherwise.
C_Open ==
  /\ cpc = "init"
  /\ IF fifoName THEN cmdFd = "open" /\ cpc' = "run" ELSE cpc' = "exited"
  /\ UNCHANGED <<shmVars, resVars, fifo, genVars, generator, viewVars,
                 histVars>>

\* The scheduler loop of the generator is running.
LoopRunning ==
  /\ keepRunning
  /\ gpc \in {"loop", "read", "dispatch", "clock", "generate", "store",
              "advance", "full", "drop", "flag", "reset"}

\* write(fd, &cmd, sizeof(Command)): one whole record, or SIGPIPE when the
\* generator has closed its end.
Write(c, next) ==
  /\ cpc = "run"
  /\ Len(sent) < MaxSent
  /\ IF cmdFd = "open"
     THEN /\ fifo' = fifo \o Encode(c)
          /\ sent' = Append(sent, [cmd |-> c, inLoop |-> LoopRunning])
          /\ cpc' = next
     ELSE /\ cpc' = "exited"
          /\ UNCHANGED <<fifo, sent>>
  /\ UNCHANGED <<shmVars, resVars, genVars, generator, viewVars, dispatched,
                 frameStart, run, poll, torn, hist, call>>

C_Start == Write(Command(CMD_START, 0), "run")
C_Stop == Write(Command(CMD_STOP, 0), "run")

\* std::stod: whether the text converts, and the number it converts to
\* (a frequency in Hz, an amplitude in hundredths).
Parses(text) == text \in {"440", "30000", "0.5", "-0.5", "1.5", "nan"}
Stod(text) ==
  CASE text = "nan" -> NaN
    [] text = "440" -> 440
    [] text = "30000" -> 30000
    [] text = "0.5" -> 50
    [] text = "-0.5" -> -50
    [] text = "1.5" -> 150

\* std::stod throws on a text that is no number: nothing is written.
C_Freq ==
  \E value \in FreqArgs :
    IF Parses(value)
    THEN Write(Command(CMD_SET_FREQ, Stod(value)), "run")
    ELSE cpc = "run" /\ UNCHANGED vars

C_Amp ==
  \E value \in AmpArgs :
    IF Parses(value)
    THEN Write(Command(CMD_SET_AMP, Stod(value)), "run")
    ELSE cpc = "run" /\ UNCHANGED vars

\* write, close(fd), exit(0)
C_Quit == Write(Command(CMD_QUIT, 0), "exited")

\* Command cmd(t, v); write(fd, &cmd, sizeof(Command)) for any kind and value.
C_AnyRecord ==
  \E t \in CommandTypes, v \in CodecValues : Write(Command(t, v), "run")

\* A process other than the controller leaves part of a record in the FIFO.
ForeignWrite ==
  /\ cmdFd = "open"
  /\ torn < MaxTorn
  /\ \E c \in TornCells : fifo' = Append(fifo, c)
  /\ torn' = torn + 1
  /\ UNCHANGED <<shmVars, resVars, ctlVars, genVars, generator, viewVars,
                 sent, dispatched, frameStart, run, poll, hist, call>>

\* ---------------------------------------------------- viewer reader thread
\* The segment exists with its full size.
SegmentReady ==
  shmName /\ (mapped \/ gpc = "mmap" \/ (gpc = "exited" /\ exitStatus = 0))

\* ViewerWindow(buffer): m_ctx{buffer, {}, true}, the thread starts with
\* lastWritePos = -1.
V_Start ==
  /\ vpc = "off"
  /\ SegmentReady
  /\ vpc' = "loop"
  /\ vrunning' = TRUE
  /\ lastWritePos' = -1
  /\ sampleHistory' = <<>>
  /\ UNCHANGED <<shmVars, resVars, fifo, ctlVars, genVars, generator,
                 currentWrite, vReadPos, sent, dispatched, frameStart, poll,
                 torn, hist, call>>
  /\ RunAfterViewerStep

\* ~ViewerWindow(): m_ctx.running = false; the thread reads the flag in its
\* loop test only, so the write is placed there.
V_Stop ==
  /\ vpc = "loop"
  /\ vrunning
  /\ vrunning' = FALSE
  /\ UNCHANGED <<shmVars, resVars, fifo, ctlVars, genVars, generator, vpc,
                 lastWritePos, currentWrite, vReadPos, sampleHistory, sent,
                 dispatched, frameStart, poll, torn, hist, call>>
  /\ RunAfterViewerStep

\* while (m_ctx.running) { int currentWrite = shmBuffer->writePos;
V_Snapshot ==
  /\ vpc = "loop"
  /\ IF vrunning
     THEN /\ currentWrite' = writePos
          /\ vpc' = "check"
          /\ poll' = [stage |-> "polling", shm |-> ShmRecord,
                      delivered |-> <<>>]
     ELSE /\ vpc' = "done"
          /\ poll' = NoPoll
          /\ UNCHANGED currentWrite
  /\ UNCHANGED <<shmVars, resVars, fifo, ctlVars, genVars, generator,
                 vrunning, lastWritePos, vReadPos, sampleHistory, sent,
                 dispatched, frameStart, torn, hist, call>>
  /\ RunAfterViewerStep

\* if (lastWritePos != currentWrite && shmBuffer->newDataAvailable)
HasNewData(last, cur, flag) == last # cur /\ flag

V_Check ==
  /\ vpc = "check"
  /\ IF HasNewData(lastWritePos, currentWrite, newDataAvailable)
     THEN /\ vpc' = "load"
          /\ UNCHANGED poll
     ELSE /\ vpc' = "loop"
          /\ poll' = IF poll = NoPoll THEN NoPoll
                     ELSE [poll EXCEPT !.stage = "skipped"]
  /\ UNCHANGED <<shmVars, resVars, fifo, ctlVars, genVars, generator,
                 vrunning, lastWritePos, currentWrite, vReadPos,
                 sampleHistory, sent, dispatched, frameStart, torn, hist, call>>
  /\ RunAfterViewerStep

\* int readPos = shmBuffer->readPos;
V_LoadReadPos ==
  /\ vpc = "load"
  /\ vReadPos' = readPos
  /\ vpc' = "drain"
  /\ UNCHANGED <<shmVars, resVars, fifo, ctlVars, genVars, generator,
                 vrunning, lastWritePos, currentWrite, sampleHistory, sent,
                 dispatched, frameStart, poll, torn, hist, call>>
  /\ RunAfterViewerStep

\* sampleHistory.push_back(sample); pop_front() beyond MAX_DISPLAY_POINTS
PushHistory(h, s) ==
  LET h1 == Append(h, s)
  IN  IF Len(h1) > MAX_DISPLAY_POINTS THEN Tail(h1) ELSE h1

\* The production number of the sample that cell p of the ring holds: the
\* generator stores sample k at position (k - 1) % BUFFER_SIZE, since writePos
\* starts at 0 and advances by one after every store.
SerialAt(p) ==
  LET ks == {k \in 1..hist.stores : (k - 1) % BUFFER_SIZE = p}
  IN  IF ks = {} THEN 0 ELSE CHOOSE k \in ks : \A j \in ks : j <= k

\* The read made one position ahead.
SampleAtNext(s, p) == s[NextPos(p)]
\* The sample the drain loop reads at its local position.
SampleAt(s, p) == s[p]

\* The drain loop advancing the shared readPos sample by sample.
V_ReadSampleAdvancingShared ==
  /\ vpc = "drain"
  /\ vReadPos # currentWrite
  /\ sampleHistory' = PushHistory(sampleHistory, SampleAt(samples, vReadPos))
  /\ vReadPos' = NextPos(vReadPos)
  /\ readPos' = NextPos(vReadPos)
  /\ poll' = IF poll = NoPoll THEN NoPoll
             ELSE [poll EXCEPT !.delivered =
                     Append(@, SampleAt(samples, vReadPos))]
  /\ hist' = [hist EXCEPT !.last = SerialAt(vReadPos)]
  /\ UNCHANGED <<samples, writePos, newDataAvailable, totalProduced, resVars,
                 fifo, ctlVars, genVars, generator, vpc, vrunning,
                 lastWritePos, currentWrite, sent, dispatched, frameStart,
                 torn, call>>
  /\ RunAfterViewerStep

\* while (readPos != currentWrite) { sample = samples[readPos]; ... }
V_ReadSample ==
  /\ vpc = "drain"
  /\ vReadPos # currentWrite
  /\ sampleHistory' = PushHistory(sampleHistory, SampleAt(samples, vReadPos))
  /\ vReadPos' = NextPos(vReadPos)
  /\ poll' = IF poll = NoPoll THEN NoPoll
             ELSE [poll EXCEPT !.delivered =
                     Append(@, SampleAt(samples, vReadPos))]
  /\ hist' = [hist EXCEPT !.last = SerialAt(vReadPos)]
  /\ UNCHANGED <<shmVars, resVars, fifo, ctlVars, genVars, generator, vpc,
                 vrunning, lastWritePos, currentWrite, sent, dispatched,
                 frameStart, torn, call>>
  /\ RunAfterViewerStep

\* The store made to writePos instead of readPos.
V_StoreReadPosIntoWritePos ==
  /\ vpc = "drain"
  /\ vReadPos = currentWrite
  /\ writePos' = vReadPos
  /\ vpc' = "clear"
  /\ UNCHANGED <<samples, readPos, newDataAvailable, totalProduced, resVars,
                 fifo, ctlVars, genVars, generator, vrunning, lastWritePos,
                 currentWrite, vReadPos, sampleHistory, sent, dispatched,
                 frameStart, poll, torn, hist, call>>
  /\ RunAfterViewerStep

\* shmBuffer->readPos = readPos;
V_StoreReadPos ==
  /\ vpc = "drain"
  /\ vReadPos = currentWrite
  /\ readPos' = vReadPos
  /\ vpc' = "clear"
  /\ UNCHANGED <<samples, writePos, newDataAvailable, totalProduced, resVars,
                 fifo, ctlVars, genVars, generator, vrunning, lastWritePos,
                 currentWrite, vReadPos, sampleHistory, sent, dispatched,
                 frameStart, poll, torn, hist, call>>
  /\ RunAfterViewerStep

\* shmBuffer->newDataAvailable = false; lastWritePos = currentWrite;
V_ClearFlag ==
  /\ vpc = "clear"
  /\ newDataAvailable' = FALSE
  /\ lastWritePos' = currentWrite
  /\ vpc' = "loop"
  /\ poll' = IF poll = NoPoll THEN NoPoll
             ELSE [poll EXCEPT !.stage = "drained"]
  /\ UNCHANGED <<samples, writePos, readPos, totalProduced, resVars, fifo,
                 ctlVars, genVars, generator, vrunning, currentWrite,
                 vReadPos, sampleHistory, sent, dispatched, frameStart, torn,
                 hist, call>>
  /\ RunAfterViewerStep

\* ------------------------------------------- SineGenerator taken by itself
\* An engine after construction and some frames: stopped or started, with
\* the phase those frames left.
InitEngine ==
  /\ \E r \in BOOLEAN, p \in InitPhases :
       /\ generator = [NewGenerator(INITIAL_FREQUENCY, INITIAL_AMPLITUDE)
                         EXCEPT !.m_running = r, !.m_phase = p]
       /\ call = [n |-> 0, op |-> "none", arg |-> [name |-> "", value |-> 0],
                  before |-> generator, result |-> <<>>,
                  rest |-> p, ops |-> {}, prevRest |-> p, prevOps |-> {}]
  /\ samples = [i \in 0..(BUFFER_SIZE - 1) |-> ZeroSample]
  /\ writePos = 0
  /\ readPos = 0
  /\ newDataAvailable = FALSE
  /\ totalProduced = 0
  /\ fifoName = FALSE
  /\ cmdFd = "closed"
  /\ shmName = FALSE
  /\ shmFd = "closed"
  /\ mapped = FALSE
  /\ fifo = <<>>
  /\ cpc = "init"
  /\ gpc = "mkfifo"
  /\ keepRunning = TRUE
  /\ cmd = Command(CMD_NONE, 0)
  /\ bytesRead = 0
  /\ lastFrameTime = 0
  /\ now = 0
  /\ frame = <<>>
  /\ fi = 0
  /\ exitStatus = -1
  /\ vpc = "off"
  /\ vrunning = FALSE
  /\ lastWritePos = -1
  /\ currentWrite = 0
  /\ vReadPos = 0
  /\ sampleHistory = <<>>
  /\ sent = <<>>
  /\ dispatched = <<>>
  /\ frameStart = -1
  /\ run = [rp0 |-> 0, n |-> 0]
  /\ poll = NoPoll
  /\ torn = 0
  /\ hist = NoHist

\* One call: the engine g2 it leaves and the vector it returns are recorded
\* with the engine before it.  call.rest is the phase stored by the last
\* frame (a generateSamples call on a running engine), call.ops the calls
\* made since that frame; prevRest and prevOps are their values before the
\* call.
EngineCall(op, arg, g2, res) ==
  /\ call.n < MaxCalls
  /\ generator' = g2
  /\ LET isFrame == op = "generateSamples" /\ generator.m_running
     IN  call' = [n |-> call.n + 1, op |-> op, arg |-> arg,
                  before |-> generator, result |-> res,
                  rest |-> IF isFrame THEN g2.m_phase ELSE call.rest,
                  ops |-> IF isFrame THEN {} ELSE call.ops \cup {op},
                  prevRest |-> call.rest, prevOps |-> call.ops]
  /\ UNCHANGED <<shmVars, resVars, fifo, ctlVars, genVars, viewVars, sent,
                 dispatched, frameStart, run, poll, torn, hist>>

E_Start ==
  EngineCall("start", [name |-> "", value |-> 0], Start(generator), <<>>)

E_Stop ==
  EngineCall("stop", [name |-> "", value |-> 0], Stop(generator), <<>>)

E_SetParameter ==
  \E name \in {"frequency", "amplitude", "offset"} :
    \E value \in (CASE name = "frequency" -> FreqValues
                     [] name = "amplitude" -> AmpValues
                     [] OTHER -> {0}) :
      EngineCall("setParameter", [name |-> name, value |-> value],
                 SetParameter(generator, name, value), <<>>)

E_GenerateSamples ==
  \E count \in Counts :
    LET r == GenerateSamples(generator, count)
    IN  EngineCall("generateSamples", [name |-> "", value |-> count],
                   r.gen, r.samples)

\* ---------------------------------------------------------- specification
GeneratorStep ==
  \/ G_MkFifo \/ G_OpenFifo \/ G_ShmOpen \/ G_Ftruncate \/ G_Mmap
  \/ G_LoopTest \/ G_Read \/ G_Dispatch \/ G_CheckElapsed \/ G_Generate
  \/ G_Store \/ G_Advance \/ G_CheckFull \/ G_Drop \/ G_SetFlag
  \/ G_ResetBaseline \/ G_Cleanup

ControllerStep ==
  \/ C_Open \/ C_Start \/ C_Stop \/ C_Freq \/ C_Amp \/ C_Quit

ViewerStep ==
  \/ V_Start \/ V_Stop \/ V_Snapshot \/ V_Check \/ V_LoadReadPos
  \/ V_ReadSample \/ V_StoreReadPos \/ V_ClearFlag

Next == GeneratorStep \/ SigInt \/ ControllerStep \/ ViewerStep

Spec == Init /\ [][Next]_vars

\* The ring buffer protocol: the generator and the viewer, with a controller
\* that only starts and stops the engine.
NextRing ==
  GeneratorStep \/ SigInt \/ C_Open \/ C_Start \/ C_Stop \/ ViewerStep

SpecRing == Init /\ [][NextRing]_vars

\* The command channel: the generator and the controller, no viewer attached.
NextCmd == GeneratorStep \/ SigInt \/ ControllerStep

SpecCmd == Init /\ [][NextCmd]_vars

\* The command channel with a foreign writer on the FIFO, and a controller
\* that starts the engine, sets the frequency and quits.
NextTorn ==
  GeneratorStep \/ SigInt \/ C_Open \/ C_Start \/ C_Freq \/ C_Quit
    \/ ForeignWrite

SpecTorn == Init /\ [][NextTorn]_vars

\* The scheduler loop and the viewer late in a long run.
NextLongRun ==
  \/ G_LoopTest \/ G_Read \/ G_Dispatch \/ G_CheckElapsed \/ G_Generate
  \/ G_Store \/ G_Advance \/ G_CheckFull \/ G_Drop \/ G_SetFlag
  \/ G_ResetBaseline \/ G_Cleanup \/ SigInt \/ C_Stop \/ ViewerStep

SpecLongRun == InitLongRun /\ [][NextLongRun]_vars

\* The body of the for loop over a frame's samples, and the flag after it.
PublishStep == G_Store \/ G_Advance \/ G_CheckFull \/ G_Drop \/ G_SetFlag

\* The generator and the controller with no viewer; the generator process
\* is scheduled again and again, so a publishing step that can be taken is
\* taken.
SpecCmdFair == SpecCmd /\ WF_vars(PublishStep)

\* The command channel carrying records of every kind and value.
NextCodec == GeneratorStep \/ C_Open \/ C_AnyRecord

SpecCodec == Init /\ [][NextCodec]_vars

\* One step of the reader thread's polling loop.
ViewerPoll ==
  \/ V_Snapshot \/ V_Check \/ V_LoadReadPos \/ V_ReadSample
  \/ V_StoreReadPos \/ V_ClearFlag

\* The generator, started by the controller, and a viewer whose window is
\* never closed.  Both processes keep being scheduled: a publishing step
\* and a polling step that can be taken are taken.
NextDrain ==
  GeneratorStep \/ SigInt \/ C_Open \/ C_Start \/ V_Start \/ ViewerPoll

SpecDrain ==
  Init /\ [][NextDrain]_vars /\ WF_vars(PublishStep) /\ WF_vars(ViewerPoll)

\* The engine under every sequence of start, stop, setParameter and
\* generateSamples calls.
NextEngine == E_Start \/ E_Stop \/ E_SetParameter \/ E_GenerateSamples

SpecEngine == InitEngine /\ [][NextEngine]_vars

\* ================================================================ claims
IsPrefix(a, b) == Len(a) <= Len(b) /\ a = SubSeq(b, 1, Len(a))

\* C1: starting from an empty ring (writePos = readPos) with no viewer step,
\* once the per-sample production step has run BUFFER_SIZE + k times, k > 0,
\* exactly BUFFER_SIZE - 1 samples are unread and readPos is k + 1 positions
\* (mod BUFFER_SIZE) past where it started.
C1_OverwriteLeavesCapacityMinusOne ==
  (run # NoRun /\ run.n > BUFFER_SIZE /\ ~MidSample(gpc)) =>
     /\ Unread = BUFFER_SIZE - 1
     /\ readPos = (run.rp0 + (run.n - BUFFER_SIZE) + 1) % BUFFER_SIZE

C1_Witness ==
  /\ run # NoRun
  /\ run.n = BUFFER_SIZE + 1
  /\ ~MidSample(gpc)
  /\ totalProduced = run.n

\* C2: both cursors stay inside the ring in every reachable state, under
\* every interleaving of production steps and viewer drain steps.
C2_CursorsInRange ==
  /\ 0 <= writePos /\ writePos < BUFFER_SIZE
  /\ 0 <= readPos /\ readPos < BUFFER_SIZE

C2_Witness ==
  /\ totalProduced > BUFFER_SIZE
  /\ lastWritePos >= 0
  /\ writePos < readPos

\* C3: once a Quit has been dispatched the generator writes no sample into
\* the ring and does not set newDataAvailable any more.
C3_NoProductionAfterQuit ==
  [][QuitDispatched =>
       /\ samples' = samples
       /\ writePos' = writePos
       /\ (newDataAvailable' => newDataAvailable)]_vars

\* C4: when the scheduler loop has ended and main has returned, the FIFO is
\* closed and unlinked and the segment is unmapped, closed and unlinked.
C4_ResourcesReleased ==
  (gpc = "exited" /\ exitStatus = 0) =>
     /\ cmdFd = "closed"
     /\ ~fifoName
     /\ ~mapped
     /\ shmFd = "closed"
     /\ ~shmName

\* C5: the generator sets newDataAvailable only in the step that follows the
\* last sample of a frame, when the whole frame is in the ring and writePos
\* is past it; that step is taken once per frame and always sets the flag.
C5_FlagOncePerWholeFrame ==
  [][/\ (~newDataAvailable /\ newDataAvailable') => gpc = "flag"
     /\ gpc = "flag" =>
          /\ Len(frame) = SAMPLES_PER_FRAME
          /\ fi = SAMPLES_PER_FRAME + 1
          /\ writePos = (frameStart + SAMPLES_PER_FRAME) % BUFFER_SIZE
     /\ (gpc # "flag" /\ gpc' = "flag") => fi = Len(frame)
     /\ (gpc = "flag" /\ gpc' # "flag") =>
          newDataAvailable' /\ gpc' = "reset"]_vars

C5_Witness ==
  /\ gpc = "reset"
  /\ newDataAvailable
  /\ totalProduced = 2 * SAMPLES_PER_FRAME
  /\ fi = SAMPLES_PER_FRAME + 1

\* C6: a poll the generator does not interrupt, which saw the flag set and a
\* new write position, delivers the samples from readPos up to the snapshot
\* in ring order and leaves readPos at the snapshot with the flag cleared; a
\* poll that saw no new data leaves the shared segment as it was.
C6_PollDrainsUpToSnapshot ==
  /\ poll.stage = "drained" =>
       /\ poll.shm.newDataAvailable
       /\ currentWrite = poll.shm.writePos
       /\ poll.delivered = RingSlice(poll.shm.samples, poll.shm.readPos,
                                     currentWrite)
       /\ readPos = currentWrite
       /\ ~newDataAvailable
  /\ poll.stage = "skipped" => ShmRecord = poll.shm

C6_Witness ==
  /\ poll.stage = "drained"
  /\ Len(poll.delivered) >= 2
  /\ poll.shm.readPos > currentWrite

\* C7 as stated: a viewer step changes no field of the segment but readPos.
C7_ViewerWritesOnlyReadPos ==
  [][viewVars' # viewVars =>
       UNCHANGED <<samples, writePos, newDataAvailable, totalProduced>>]_vars

\* C7: a viewer step leaves samples, writePos and totalProduced unchanged; it
\* changes readPos only by the store that ends a drain, and newDataAvailable
\* only by clearing it after that store.
C7_ViewerWritesReadPosAndClearsFlag ==
  [][viewVars' # viewVars =>
       /\ UNCHANGED <<samples, writePos, totalProduced>>
       /\ readPos' # readPos => (vpc = "drain" /\ readPos' = currentWrite)
       /\ newDataAvailable' # newDataAvailable =>
            (vpc = "clear" /\ ~newDataAvailable')]_vars

C7_Witness ==
  /\ vpc = "loop"
  /\ lastWritePos = writePos
  /\ totalProduced > 0
  /\ ~newDataAvailable

\* C8: samples, writePos and totalProduced change only in the generator's
\* per-sample production steps, never in a viewer step.
C8_OnlyProductionWritesSamples ==
  [][(samples' # samples \/ writePos' # writePos
        \/ totalProduced' # totalProduced) =>
       /\ viewVars' = viewVars
       /\ gpc \in {"store", "advance"}]_vars

C8_Witness ==
  /\ vpc = "clear"
  /\ totalProduced >= SAMPLES_PER_FRAME
  /\ readPos = writePos

\* C9: a command phase whose read returned anything but the record size
\* dispatches nothing: the generator object (running, frequency, amplitude,
\* phase) and keepRunning are as before.
C9_ShortReadIsNoCommand ==
  [][(gpc \in {"read", "dispatch"} /\ gpc' # gpc
        /\ bytesRead' # SizeofCommand) =>
       UNCHANGED <<generator, keepRunning, dispatched>>]_vars

C9_Witness ==
  /\ gpc = "clock"
  /\ bytesRead = 1
  /\ cmd.type = CMD_QUIT
  /\ keepRunning

\* C10 as stated: every record written while the loop was running has been
\* dispatched when the generator has finished.
C10_EveryRecordDispatched ==
  (gpc = "exited" /\ exitStatus = 0) =>
     \A i \in 1..Len(sent) : sent[i].inLoop => i <= Len(dispatched)

\* C10: the records dispatched are always an initial part of the records
\* written, in the order written; once a Quit has been dispatched they are
\* all the records written.
C10_DispatchedIsPrefixOfSent ==
  /\ IsPrefix(dispatched, SentCommands)
  /\ QuitDispatched => dispatched = SentCommands

C10_Witness ==
  /\ Len(dispatched) = 2
  /\ dispatched[1] # dispatched[2]
  /\ dispatched[2].type = CMD_QUIT

\* C11: a scheduler tick takes at most one record out of the channel and
\* dispatches at most one, and between two consecutive dispatches the
\* elapsed-time check of the production phase has run: at least once, and
\* exactly once when the second record was already waiting in the channel
\* at the first dispatch.
C11_OneRecordPerTick ==
  [][/\ (gpc = "read" /\ gpc' = "dispatch")
          => Len(fifo') >= Len(fifo) - SizeofCommand
     /\ (dispatched' # dispatched)
          => /\ Len(dispatched') = Len(dispatched) + 1
             /\ dispatched # <<>>
                  => /\ hist.checks >= 1
                     /\ hist.pending => hist.checks = 1]_vars
\* The second of two records that were pending together is about to be
\* dispatched, one tick after the first.
C11_Witness ==
  /\ gpc = "dispatch"
  /\ FullRecord(bytesRead)
  /\ Len(dispatched) = 1
  /\ hist.pending
  /\ hist.checks = 1

\* A step of the generator's scheduler (the viewer thread stands still).
SchedulerStep == viewVars' = viewVars /\ gpc \notin {"mmap", "exited"}

\* C12: the scheduler requests a frame, and writes to the ring buffer, only
\* in a tick whose interval has elapsed and with the engine running; while
\* the engine is not running no scheduler step changes samples, writePos,
\* readPos, newDataAvailable or totalProduced; every tick ends with a
\* baseline less than one interval old (a tick whose interval elapsed has
\* reset it, with or without samples); and two frames are never requested
\* less than one interval apart.
C12_FrameOnlyWhenDueAndRunning ==
  [][/\ (gpc = "generate" /\ gpc' = "store")
          => /\ Elapsed(now, lastFrameTime) /\ IsRunning(generator)
             /\ hist.frameAt # -1 => now - hist.frameAt >= FRAME_INTERVAL_MS
     /\ (SchedulerStep /\ shmVars' # shmVars)
          => Elapsed(now, lastFrameTime) /\ IsRunning(generator)
     /\ (SchedulerStep /\ ~IsRunning(generator)) => shmVars' = shmVars
     /\ (gpc = "reset" /\ gpc' = "loop") => lastFrameTime' = now
     /\ (gpc \in {"clock", "reset"} /\ gpc' = "loop")
          => ~Elapsed(now', lastFrameTime')]_vars
\* The first frame is requested after a stopped period in which a tick with
\* an elapsed interval has reset the baseline.
C12_Witness ==
  /\ gpc = "store"
  /\ hist.stores = 0
  /\ hist.frameAt = now
  /\ lastFrameTime >= FRAME_INTERVAL_MS

\* The last call generated a frame: generateSamples on a running engine.
FrameGenerated ==
  call.op = "generateSamples" /\ call.before.m_running

\* C13: generateSamples(count) on a stopped engine returns an empty vector
\* and leaves the whole engine (phase, displayCycles, zoom, frequency,
\* amplitude, running) as it was.
C13_StoppedEngineProducesNothing ==
  (call.op = "generateSamples" /\ ~call.before.m_running)
    => (call.result = <<>> /\ generator = call.before)
\* generateSamples was called on an engine stopped after a frame.
C13_Witness ==
  /\ call.op = "generateSamples"
  /\ ~call.before.m_running
  /\ call.arg.value = SAMPLES_PER_FRAME
  /\ call.before.m_phase \notin InitPhases

\* C14: start() and stop() change the running flag and nothing else, and
\* the first sample of the first frame after a stop is taken at the phase
\* stored by the last frame before the stop.
C14_StartStopKeepPhase ==
  /\ call.op \in {"start", "stop"}
       => generator = [call.before EXCEPT !.m_running = (call.op = "start")]
  /\ (FrameGenerated /\ call.result # <<>> /\ "stop" \in call.prevOps)
       => call.result[1].ph = call.prevRest
\* A frame, then stop and start, then the next frame.
C14_Witness ==
  /\ FrameGenerated
  /\ call.result # <<>>
  /\ {"stop", "start"} \subseteq call.prevOps
  /\ call.prevRest \notin InitPhases

\* C15: after any dispatched SetFrequency and SetAmplitude commands the
\* engine's frequency lies in [MIN_FREQ, MAX_FREQ] and its amplitude in
\* [0, MAX_AMPLITUDE].
C15_ParametersInRange ==
  /\ generator.m_frequency \in MIN_FREQ..MAX_FREQ
  /\ generator.m_amplitude \in 0..MAX_AMPLITUDE

\* C16: the first sample of a frame is amplitude * sin(p) with p the phase
\* stored at the end of the frame before it, that stored phase is at most
\* 2*pi, and no call other than a frame changes the phase.
C16_FrameStartsAtStoredPhase ==
  /\ (FrameGenerated /\ call.result # <<>>)
       => call.result[1] = Sample(call.before.m_amplitude, call.prevRest)
  /\ FrameGenerated
       => /\ generator.m_phase = call.rest
          /\ ~IsNaN(generator.m_phase) => generator.m_phase \in 0..TWO_PI
  /\ (call.op # "none" /\ ~FrameGenerated)
       => generator.m_phase = call.before.m_phase
\* Two frames in a row with the same frequency and amplitude, the first of
\* which wrapped the phase around.
C16_Witness ==
  /\ FrameGenerated
  /\ call.result # <<>>
  /\ call.prevOps = {}
  /\ call.n >= 2
  /\ call.prevRest \in 1..200

C18_ProductionNeverBlocks ==
  (gpc \in {"store", "advance", "full", "drop", "flag"}) ~> (gpc = "reset")
\* A sample is about to be stored into a ring that is already full of
\* unread samples, after more samples than the ring holds.
C18_Witness ==
  /\ gpc = "store"
  /\ Unread = BUFFER_SIZE - 1
  /\ hist.stores > BUFFER_SIZE
  /\ vpc = "off"

\* C19: decoding the wire form of a record of any kind and value gives the
\* record back, and the record the generator holds after a read of a whole
\* record is the next record the controller wrote, kind and value.
C19_DecodedEqualsEncoded ==
  /\ \A t \in CommandTypes, v \in CodecValues :
       /\ Len(Encode(Command(t, v))) = SizeofCommand
       /\ Decode(cmd, Encode(Command(t, v))) = Command(t, v)
  /\ (gpc = "dispatch" /\ FullRecord(bytesRead))
       => /\ Len(dispatched) < Len(sent)
          /\ cmd = sent[Len(dispatched) + 1].cmd
\* The second record read is of kind CMD_NONE and carries NaN, after a
\* record of another kind and value.
C19_Witness ==
  /\ gpc = "dispatch"
  /\ FullRecord(bytesRead)
  /\ Len(dispatched) = 1
  /\ cmd = Command(CMD_NONE, NaN)
  /\ dispatched[1] = Command(CMD_SET_AMP, -50)

\* The start-up steps of the generator's main().
StartupPcs == {"mkfifo", "openfifo", "shmopen", "ftruncate", "mmap"}

\* C20: a start-up step either goes on to the next step or ends the
\* process with status 1; the process is then over for good (no retry), it
\* holds no mapping, and the scheduler loop has never run: no elapsed-time
\* check was made, no command dispatched, no sample stored or counted and
\* no frame flagged.  Status 1 is given by nothing but a start-up failure.
C20_StartupFailureIsFatal ==
  [][/\ (gpc \in StartupPcs /\ gpc' \notin StartupPcs \cup {"loop"})
          => (gpc' = "exited" /\ exitStatus' = 1)
     /\ exitStatus' = 1
          => /\ gpc' = "exited" /\ ~mapped'
             /\ gpc \in StartupPcs \cup {"exited"}
             /\ hist'.checks = 0 /\ dispatched' = <<>>
             /\ hist'.stores = 0 /\ totalProduced' = 0
             /\ ~newDataAvailable'
     /\ gpc = "exited" => (gpc' = "exited" /\ exitStatus' = exitStatus)]_vars
\* The generator has given up after the controller had written a record:
\* the FIFO was created and opened, a shared-memory step failed.
C20_Witness ==
  /\ exitStatus = 1
  /\ gpc = "exited"
  /\ sent # <<>>
  /\ fifo # <<>>

\* C21: once a frame has been published with the viewer running, the viewer
\* eventually drains the ring, readPos = writePos, under every interleaving
\* (the model produces a bounded number of frames, so the generator
\* produces nothing further from some point on).
C21_ViewerEventuallyDrains ==
  (vpc # "off" /\ newDataAvailable) ~> (readPos = writePos)

\* C22: the samples the viewer delivers to its history arrive in strictly
\* increasing production order: every delivered sample was produced later
\* than the sample delivered before it.
C22_DeliveredInProductionOrder ==
  [][(vpc = "drain" /\ vReadPos' # vReadPos)
       => SerialAt(vReadPos) > hist.last]_vars

\* C23: the viewer's store to readPos never moves readPos past a sample the
\* viewer has not delivered and never undoes the generator's overwrite
\* advance: whenever the store changes readPos, the sample just behind the
\* new readPos, the newest one the store passes, is the sample the viewer
\* delivered last.
C23_ViewerStoreSkipsNothing ==
  [][(vpc = "drain" /\ vpc' = "clear" /\ readPos' # readPos)
       => \E p \in 0..(BUFFER_SIZE - 1) :
            NextPos(p) = readPos' /\ hist.last = SerialAt(p)]_vars
====
